---- MODULE Spec2Model ----
\* A model of tools/generate_package_config.py: the launcher that runs the
\* checked-in Dart SDK's `dart pub get --offline` and exits with its status.
\*
\* Paths are sequences of path components below the filesystem root (the root
\* itself is <<>>).  An environment is a function from variable names to values;
\* a value is a sequence of text segments (a path value is its components, a
\* plain string is a single segment).
EXTENDS Integers, Sequences, FiniteSets, TLC

VARIABLES
    os_id,          \* what platform.system() returns on this host
    scriptReal,     \* where the launcher script really lives (resolved, absolute)
    file,           \* __file__: [abs |-> BOOLEAN, comps |-> components]
    callerCwd,      \* os.getcwd() of the launcher process
    links,          \* the filesystem's symbolic links: path -> target path
    parentEnv,      \* os.environ of the launcher process
    argv,           \* sys.argv[1:] of the launcher process
    exeStatus,      \* state of the computed executable: "ok", "missing", "noexec"
    pc,             \* launcher position: "start", "waiting", "returned", "exited"
    childState,     \* "none", "running", "done"
    childArgv,      \* command line the child was started with
    childCwd,       \* working directory the child was started in
    childEnv,       \* environment the child was started with
    childEnd,       \* how the child ended: [kind |-> "none"|"exit"|"signal", n |-> Int]
    returncode,     \* process.returncode as returned by generate_package_config
    exitStatus,     \* the launcher's own exit status (-1 while it has not exited)
    exitVia,        \* "none", "sys.exit" or "exception"
    spawnCount,     \* number of child processes started
    stderr,         \* diagnostics written by the launcher process itself
    launcherWrites, \* filesystem paths written by the launcher process itself
    childWrites     \* filesystem paths written by the child process

vars == <<os_id, scriptReal, file, callerCwd, links, parentEnv, argv, exeStatus,
          pc, childState, childArgv, childCwd, childEnv, childEnd, returncode,
          exitStatus, exitVia, spawnCount, stderr, launcherWrites, childWrites>>

-----------------------------------------------------------------------------
\* Bounds and input sets

\* Deepest directory (in components below the root) the script is placed in.
MaxDepth == 2

DirNames == {"sdk", "tools"}

ScriptName == "generate_package_config.py"

\* Directory the symbolic links used to reach the script live in.
LinkDir == <<"lnk">>

Dirs == UNION {[1..k -> DirNames] : k \in 0..MaxDepth}

Platforms == {"Windows", "Linux", "Darwin", "windows", ""}

ExitCodes == {0, 1, 7, 255}

Signals == {9}

EmptyEnv == [k \in {} |-> <<>>]

ParentEnvs ==
    { EmptyEnv,
      [k \in {"PATH"} |-> <<"/usr/bin">>],
      [k \in {"PATH", "PUB_HOSTED_URL", "PUB_CACHE"} |->
          IF k = "PATH" THEN <<"/usr/bin">>
          ELSE IF k = "PUB_HOSTED_URL" THEN <<"https://pub.dev">>
          ELSE <<"home", "u", ".pub-cache">>] }

Argvs == { <<>>, <<"upgrade", "--verbose">> }

IsPrefix(p, q) == Len(p) <= Len(q) /\ SubSeq(q, 1, Len(p)) = p

-----------------------------------------------------------------------------
\* os.path

\* os.path.dirname on an absolute path: drops the last component; the root's
\* dirname is the root.
Dirname(p) == IF p = <<>> THEN <<>> ELSE SubSeq(p, 1, Len(p) - 1)

\* os.path.join(base, *parts) with relative parts.
Join(base, parts) == base \o parts

\* os.path.abspath: a relative path is taken from the current directory.
Abspath(f) == IF f.abs THEN f.comps ELSE Join(callerCwd, f.comps)

RECURSIVE ResolveFrom(_, _)
\* Walks the components left to right, replacing every prefix that is a
\* symbolic link by its target.
ResolveFrom(done, rest) ==
    IF rest = <<>> THEN done
    ELSE LET next == Append(done, Head(rest))
         IN  IF next \in DOMAIN links
             THEN ResolveFrom(links[next], Tail(rest))
             ELSE ResolveFrom(next, Tail(rest))

\* os.path.realpath: absolute, with symbolic links resolved.
Realpath(f) == ResolveFrom(<<>>, Abspath(f))

-----------------------------------------------------------------------------
\* The script's functions

is_windows_any_case == os_id \in {"Windows", "windows"}

is_windows == os_id = "Windows"

checked_in_sdk_path_cwd == Join(callerCwd, <<"sdks", "dart-sdk">>)

checked_in_sdk_path ==
    LET tools_dir == Dirname(Realpath(file))
    IN  Join(tools_dir, <<"sdks", "dart-sdk">>)

checked_in_sdk_executable ==
    LET name == IF is_windows THEN "dart.exe" ELSE "dart"
    IN  Join(checked_in_sdk_path, <<"bin", name>>)

sdk_dir_abspath == Dirname(Dirname(Abspath(file)))

\* line 35
sdk_dir == Dirname(Dirname(Realpath(file)))

child_args_forwarding == <<checked_in_sdk_executable, "pub", "get", "--offline">> \o argv

\* lines 36-41: the command line of subprocess.run
child_args == <<checked_in_sdk_executable, "pub", "get", "--offline">>

child_env_merged ==
    [k \in DOMAIN parentEnv \cup {"PUB_HOSTED_URL", "PUB_CACHE"} |->
        IF k = "PUB_HOSTED_URL" THEN <<"http://fake/pub">>
        ELSE IF k = "PUB_CACHE" THEN Join(sdk_dir, <<".dart_tool", "sdk_pub_cache">>)
        ELSE parentEnv[k]]

\* lines 41-48: the env argument of subprocess.run, a fresh dict
child_env ==
    [k \in {"PUB_HOSTED_URL", "PUB_CACHE"} |->
        IF k = "PUB_HOSTED_URL" THEN <<"http://fake/pub">>
        ELSE Join(sdk_dir, <<".dart_tool", "sdk_pub_cache">>)]

start_failure_returns_zero(err) == [kind |-> "return", code |-> 0, err |-> err]

start_failure_returns_127(err) == [kind |-> "return", code |-> 127, err |-> err]

\* lines 36-48: subprocess.run raises OSError (FileNotFoundError,
\* PermissionError) when the executable cannot be started; nothing in
\* generate_package_config or Main catches it, so the interpreter prints the
\* traceback and ends the process with status 1.
start_failure(err) == [kind |-> "raise", code |-> 1, err |-> err]

sys_exit_clamped(rc) == IF rc = 0 THEN 0 ELSE 1

\* line 53: sys.exit(n) ends the process with the low 8 bits of n as its status.
sys_exit(rc) == rc % 256

\* subprocess's returncode: the exit code, or -N when the child was killed by
\* signal N.
ReturnCodeOf(end) == IF end.kind = "signal" THEN 0 - end.n ELSE end.n

-----------------------------------------------------------------------------
\* Initial states: a host, a place for the script, a way of reaching it.

NoChildEnd == [kind |-> "none", n |-> 0]

\* Ways the script at real path s can be named by __file__ when the launcher
\* runs with current directory c: [file, links].
Invocations(s, c) ==
    { [file |-> [abs |-> TRUE, comps |-> s], links |-> EmptyEnv] }
    \cup
    ( IF IsPrefix(c, s)
      THEN { [file |-> [abs |-> FALSE, comps |-> SubSeq(s, Len(c) + 1, Len(s))],
              links |-> EmptyEnv] }
      ELSE {} )
    \cup
    { [file |-> [abs |-> TRUE, comps |-> Append(LinkDir, ScriptName)],
       links |-> [p \in {Append(LinkDir, ScriptName)} |-> s]],
      [file |-> [abs |-> TRUE, comps |-> Append(LinkDir, ScriptName)],
       links |-> [p \in {LinkDir} |-> Dirname(s)]] }

Init ==
    /\ os_id \in Platforms
    /\ \E d \in Dirs : scriptReal = Append(d, ScriptName)
    /\ callerCwd \in Dirs
    /\ \E i \in Invocations(scriptReal, callerCwd) :
          /\ file = i.file
          /\ links = i.links
    /\ parentEnv \in ParentEnvs
    /\ argv \in Argvs
    /\ exeStatus \in {"ok", "missing", "noexec"}
    /\ pc = "start"
    /\ childState = "none"
    /\ childArgv = <<>>
    /\ childCwd = <<>>
    /\ childEnv = EmptyEnv
    /\ childEnd = NoChildEnd
    /\ returncode = 0
    /\ exitStatus = -1
    /\ exitVia = "none"
    /\ spawnCount = 0
    /\ stderr = <<>>
    /\ launcherWrites = {}
    /\ childWrites = {}

-----------------------------------------------------------------------------
\* The run

\* The error subprocess.run raises for an executable in state st.
OSErrorOf(st) == IF st = "missing" THEN "FileNotFoundError" ELSE "PermissionError"

\* lines 34-48, executable present: subprocess.run starts the child and blocks.
Spawn ==
    /\ pc = "start"
    /\ exeStatus = "ok"
    /\ pc' = "waiting"
    /\ childState' = "running"
    /\ childArgv' = child_args
    /\ childCwd' = sdk_dir
    /\ childEnv' = child_env
    /\ spawnCount' = spawnCount + 1
    /\ UNCHANGED <<os_id, scriptReal, file, callerCwd, links, parentEnv, argv,
                   exeStatus, childEnd, returncode, exitStatus, exitVia, stderr,
                   launcherWrites, childWrites>>

\* lines 34-48, executable missing or not executable: no child runs.
SpawnFail ==
    /\ pc = "start"
    /\ exeStatus # "ok"
    /\ LET r == start_failure(OSErrorOf(exeStatus))
       IN  IF r.kind = "raise"
           THEN /\ pc' = "exited"
                /\ exitStatus' = r.code
                /\ exitVia' = "exception"
                /\ stderr' = Append(stderr, r.err)
                /\ UNCHANGED returncode
           ELSE /\ pc' = "returned"
                /\ returncode' = r.code
                /\ UNCHANGED <<exitStatus, exitVia, stderr>>
    /\ UNCHANGED <<os_id, scriptReal, file, callerCwd, links, parentEnv, argv,
                   exeStatus, childState, childArgv, childCwd, childEnv, childEnd,
                   spawnCount, launcherWrites, childWrites>>

\* The child writes into the pub cache it was given.
ChildWrite ==
    /\ childState = "running"
    /\ childWrites = {}
    /\ childWrites' = {childEnv["PUB_CACHE"]}
    /\ UNCHANGED <<os_id, scriptReal, file, callerCwd, links, parentEnv, argv,
                   exeStatus, pc, childState, childArgv, childCwd, childEnv,
                   childEnd, returncode, exitStatus, exitVia, spawnCount, stderr,
                   launcherWrites>>

\* The child ends by itself with an exit code.
ChildExit ==
    /\ childState = "running"
    /\ \E c \in ExitCodes : childEnd' = [kind |-> "exit", n |-> c]
    /\ childState' = "done"
    /\ UNCHANGED <<os_id, scriptReal, file, callerCwd, links, parentEnv, argv,
                   exeStatus, pc, childArgv, childCwd, childEnv, returncode,
                   exitStatus, exitVia, spawnCount, stderr, launcherWrites,
                   childWrites>>

\* The child is killed by a signal.
ChildKilled ==
    /\ childState = "running"
    /\ \E s \in Signals : childEnd' = [kind |-> "signal", n |-> s]
    /\ childState' = "done"
    /\ UNCHANGED <<os_id, scriptReal, file, callerCwd, links, parentEnv, argv,
                   exeStatus, pc, childArgv, childCwd, childEnv, returncode,
                   exitStatus, exitVia, spawnCount, stderr, launcherWrites,
                   childWrites>>

RunReturnRetry ==
    /\ pc = "waiting"
    /\ childState = "done"
    /\ IF ReturnCodeOf(childEnd) # 0 /\ spawnCount < 2
       THEN /\ pc' = "start"
            /\ childState' = "none"
            /\ UNCHANGED returncode
       ELSE /\ pc' = "returned"
            /\ returncode' = ReturnCodeOf(childEnd)
            /\ UNCHANGED childState
    /\ UNCHANGED <<os_id, scriptReal, file, callerCwd, links, parentEnv, argv,
                   exeStatus, childArgv, childCwd, childEnv, childEnd,
                   exitStatus, exitVia, spawnCount, stderr, launcherWrites,
                   childWrites>>

RunReturnNoWait ==
    /\ pc = "waiting"
    /\ pc' = "returned"
    /\ returncode' = IF childState = "done" THEN ReturnCodeOf(childEnd) ELSE 0
    /\ UNCHANGED <<os_id, scriptReal, file, callerCwd, links, parentEnv, argv,
                   exeStatus, childState, childArgv, childCwd, childEnv, childEnd,
                   exitStatus, exitVia, spawnCount, stderr, launcherWrites,
                   childWrites>>

\* lines 36-49: subprocess.run returns once the child has ended, and
\* generate_package_config returns process.returncode.
RunReturn ==
    /\ pc = "waiting"
    /\ childState = "done"
    /\ pc' = "returned"
    /\ returncode' = ReturnCodeOf(childEnd)
    /\ UNCHANGED <<os_id, scriptReal, file, callerCwd, links, parentEnv, argv,
                   exeStatus, childState, childArgv, childCwd, childEnv, childEnd,
                   exitStatus, exitVia, spawnCount, stderr, launcherWrites,
                   childWrites>>

\* lines 52-53: Main passes the return code to sys.exit.
Exit ==
    /\ pc = "returned"
    /\ pc' = "exited"
    /\ exitStatus' = sys_exit(returncode)
    /\ exitVia' = "sys.exit"
    /\ UNCHANGED <<os_id, scriptReal, file, callerCwd, links, parentEnv, argv,
                   exeStatus, childState, childArgv, childCwd, childEnv, childEnd,
                   returncode, spawnCount, stderr, launcherWrites, childWrites>>

LauncherStep == Spawn \/ SpawnFail \/ RunReturn \/ Exit

Next == Spawn \/ SpawnFail \/ ChildWrite \/ ChildExit \/ ChildKilled \/ RunReturn \/ Exit

Spec == Init /\ [][Next]_vars

\* The interpreter keeps executing the launcher; nothing obliges the child to end.
FairSpec == Spec /\ WF_vars(LauncherStep)

-----------------------------------------------------------------------------
\* Properties

\* C1: whenever the child terminates with exit code c (0 or non-zero), the
\* launcher's exit status is exactly c.
C1_ExitCodePropagated ==
    (pc = "exited" /\ childEnd.kind = "exit") => exitStatus = childEnd.n

C1_Witness ==
    pc = "exited" /\ childEnd = [kind |-> "exit", n |-> 7] /\ exitStatus = 7

\* C2: when the executable is missing or not executable the launcher still
\* terminates, and a launcher that exits without any child having run never
\* exits with status 0.
C2_StartFailureExitsNonZero ==
    /\ []((pc = "exited" /\ spawnCount = 0) => exitStatus # 0)
    /\ ((pc = "start" /\ exeStatus # "ok") ~> (pc = "exited" /\ exitStatus # 0))

C2_Witness ==
    pc = "exited" /\ exeStatus = "missing" /\ spawnCount = 0 /\ exitStatus = 1

\* C3 as stated: every failing run (executable missing, or child exiting
\* non-zero) ends through sys.exit(return code) and the launcher writes no
\* diagnostic of its own.
C3_SameSilentPath ==
    (pc = "exited" /\ exitStatus # 0) => (exitVia = "sys.exit" /\ stderr = <<>>)

\* C3 amended: both failures end in a non-zero exit status, by different paths.
\* A child that ran and failed gives its return code to sys.exit and the
\* launcher prints nothing; an executable that cannot be started makes
\* subprocess.run raise, the uncaught error is printed as a traceback and the
\* launcher exits with status 1 without reaching sys.exit.
C3_TwoFailurePaths ==
    pc = "exited" =>
        /\ (exeStatus # "ok" =>
                /\ spawnCount = 0
                /\ exitStatus = 1
                /\ exitVia = "exception"
                /\ stderr = <<OSErrorOf(exeStatus)>>)
        /\ (exeStatus = "ok" =>
                /\ spawnCount = 1
                /\ exitVia = "sys.exit"
                /\ stderr = <<>>
                /\ (ReturnCodeOf(childEnd) # 0 => exitStatus # 0))

C3_Witness ==
    /\ pc = "exited"
    /\ exeStatus = "noexec"
    /\ exitVia = "exception"
    /\ stderr = <<"PermissionError">>

\* C4: the child's environment has exactly the keys PUB_HOSTED_URL and
\* PUB_CACHE, with values fixed by the script's location alone, whatever the
\* launcher's own environment holds.
C4_ChildEnvReplaced ==
    childState # "none" =>
        /\ DOMAIN childEnv = {"PUB_HOSTED_URL", "PUB_CACHE"}
        /\ childEnv["PUB_HOSTED_URL"] = <<"http://fake/pub">>
        /\ childEnv["PUB_CACHE"] =
              Dirname(Dirname(scriptReal)) \o <<".dart_tool", "sdk_pub_cache">>

C4_Witness ==
    /\ childState = "running"
    /\ DOMAIN parentEnv = {"PATH", "PUB_HOSTED_URL", "PUB_CACHE"}
    /\ DOMAIN childEnv = {"PUB_HOSTED_URL", "PUB_CACHE"}

\* C5: the child's working directory is the script's real location with its
\* file name and containing directory removed (the root when the script sits
\* directly in the root), whatever the launcher's current directory is.
C5_ChildCwdIsGrandparent ==
    childState # "none" =>
        IF Len(scriptReal) >= 2
        THEN childCwd \o SubSeq(scriptReal, Len(scriptReal) - 1, Len(scriptReal))
                = scriptReal
        ELSE childCwd = <<>>

C5_Witness ==
    /\ childState = "running"
    /\ Len(scriptReal) = 3
    /\ LinkDir \in DOMAIN links
    /\ callerCwd # childCwd

\* C6: the executable's file name is dart.exe exactly when platform.system()
\* is 'Windows', and dart for every other value; nothing else is produced.
C6_ExecutableName ==
    LET exe == checked_in_sdk_executable
        name == exe[Len(exe)]
    IN  /\ name \in {"dart", "dart.exe"}
        /\ (name = "dart.exe") <=> (os_id = "Windows")
        /\ (childState # "none" => childArgv[1] = exe)

C6_Witness ==
    /\ childState = "running"
    /\ os_id = "Windows"
    /\ childArgv[1][Len(childArgv[1])] = "dart.exe"

\* C7: at most one child is ever started, exactly one once the launcher has
\* got past the invocation of a startable executable, none when it cannot be
\* started, and the launcher itself writes nothing to the filesystem.
C7_OneChildNoWrites ==
    /\ spawnCount <= 1
    /\ ((pc # "start" /\ exeStatus = "ok") => spawnCount = 1)
    /\ (exeStatus # "ok" => spawnCount = 0)
    /\ launcherWrites = {}

C7_Witness ==
    /\ pc = "exited"
    /\ spawnCount = 1
    /\ exitStatus = 7
    /\ childWrites # {}

C9_BlocksUntilChildEnds ==
    /\ [](pc \in {"returned", "exited"} => childState # "running")
    /\ []((pc = "returned" /\ spawnCount > 0) => returncode = ReturnCodeOf(childEnd))
    /\ (childState = "done" ~> pc = "exited")

C9_Witness ==
    /\ pc = "exited"
    /\ childState = "done"
    /\ childEnd.kind = "signal"
    /\ childWrites # {}

\* C10: the executable is <launcher directory>/sdks/dart-sdk/bin/<name>, the
\* pub cache is <working directory>/.dart_tool/sdk_pub_cache, the working
\* directory is the parent of the launcher directory, so both lie strictly
\* beneath it; PUB_HOSTED_URL is http://fake/pub.
C10_PathsConsistent ==
    childState # "none" =>
        LET exe == childArgv[1]
            cache == childEnv["PUB_CACHE"]
            launcherDir == Dirname(scriptReal)
        IN  /\ Len(exe) = Len(launcherDir) + 4
            /\ SubSeq(exe, 1, Len(exe) - 1) = launcherDir \o <<"sdks", "dart-sdk", "bin">>
            /\ exe[Len(exe)] \in {"dart", "dart.exe"}
            /\ cache = childCwd \o <<".dart_tool", "sdk_pub_cache">>
            /\ childCwd = Dirname(launcherDir)
            /\ IsPrefix(childCwd, exe) /\ Len(childCwd) < Len(exe)
            /\ IsPrefix(childCwd, cache) /\ Len(childCwd) < Len(cache)
            /\ childEnv["PUB_HOSTED_URL"] = <<"http://fake/pub">>

C10_Witness ==
    /\ childState = "running"
    /\ Len(scriptReal) = 3
    /\ callerCwd # Dirname(scriptReal)
    /\ childEnv["PUB_CACHE"] = <<"sdk", ".dart_tool", "sdk_pub_cache">>

====
